---- MODULE Spec2Model ----
(***************************************************************************)
(* A model of pilot/email_validator.py: the EmailValidator class.          *)
(*                                                                         *)
(* A Python str is modelled as a sequence of one-character strings, so     *)
(* "a@b" is <<"a", "@", "b">>.  An error message is a record: the fixed    *)
(* text of the message, the characters an f-string interpolates into it    *)
(* (arg) and the number it interpolates (num, 0 when there is none).       *)
(***************************************************************************)
EXTENDS Integers, Sequences, FiniteSets, TLC

VARIABLES
    strict_mode,   \* self.strict_mode of the instance
    errors,        \* self.errors of the instance
    op,            \* the last method that returned (sequential callers)
    email,         \* the argument of that call
    ret,           \* what that call returned
    last_call,     \* history: the last validate call, and self.errors when it began
    pc,            \* concurrent callers: where each thread is
    t_email,       \* concurrent callers: the argument of each thread's call
    t_is_valid,    \* concurrent callers: the local is_valid of each thread
    t_ret,         \* concurrent callers: what each thread's call returned
    errors_s,      \* a second instance, built with strict_mode=True
    errors_n,      \* a third instance, built with strict_mode=False
    ret_s,         \* what the strict instance's last validate returned
    ret_n          \* what the non-strict instance's last validate returned

vars == <<strict_mode, errors, op, email, ret, last_call, pc, t_email, t_is_valid, t_ret,
          errors_s, errors_n, ret_s, ret_n>>

-----------------------------------------------------------------------------
(* Program constants *)

MAX_EMAIL_LENGTH == 254
MAX_LOCAL_LENGTH == 64
MAX_DOMAIN_LENGTH == 255
MAX_LABEL_LENGTH == 63
MIN_TLD_LENGTH == 2

-----------------------------------------------------------------------------
(* Character classes *)

Lower == {"a", "b", "c", "d", "e", "f", "g", "h", "i", "j", "k", "l", "m",
          "n", "o", "p", "q", "r", "s", "t", "u", "v", "w", "x", "y", "z"}
Upper == {"A", "B", "C", "D", "E", "F", "G", "H", "I", "J", "K", "L", "M",
          "N", "O", "P", "Q", "R", "S", "T", "U", "V", "W", "X", "Y", "Z"}
Digit == {"0", "1", "2", "3", "4", "5", "6", "7", "8", "9"}

\* the regex class [a-zA-Z]
AsciiLetter == Lower \cup Upper

\* the regex class [a-zA-Z0-9]
AsciiAlnum == AsciiLetter \cup Digit

\* characters str.isalnum() accepts beyond ASCII (it follows Unicode)
UnicodeAlnum == {"é"}

\* characters str.strip() removes
Whitespace == {" ", "\t", "\n", "\r"}

\* char.isalnum()
isalnum(c) == c \in AsciiAlnum \cup UnicodeAlnum

\* allowed_special = set('._%+-')
allowed_special_without_plus == {".", "_", "%", "-"}
allowed_special == {".", "_", "%", "+", "-"}

\* the regex class [a-zA-Z0-9._%+-]
PatternLocalClass == AsciiAlnum \cup {".", "_", "%", "+", "-"}

\* the regex class [a-zA-Z0-9.-]
PatternDomainClass == AsciiAlnum \cup {".", "-"}

\* the regex class [a-zA-Z0-9-]
LabelClass == AsciiAlnum \cup {"-"}

-----------------------------------------------------------------------------
(* String primitives *)

SetMin(S) == CHOOSE i \in S : \A j \in S : i <= j
SetMax(S) == CHOOSE i \in S : \A j \in S : j <= i

\* s.strip()
strip(s) ==
    IF \A i \in 1..Len(s) : s[i] \in Whitespace THEN <<>>
    ELSE LET first == CHOOSE i \in 1..Len(s) :
                          s[i] \notin Whitespace /\ \A j \in 1..(i - 1) : s[j] \in Whitespace
             last == CHOOSE i \in 1..Len(s) :
                          s[i] \notin Whitespace /\ \A j \in (i + 1)..Len(s) : s[j] \in Whitespace
         IN  SubSeq(s, first, last)

\* s.count(c)
count(s, c) == Cardinality({i \in 1..Len(s) : s[i] = c})

\* c in s
contains(s, c) == \E i \in 1..Len(s) : s[i] = c

\* '..' in s
has_consecutive_periods(s) == \E i \in 1..(Len(s) - 1) : s[i] = "." /\ s[i + 1] = "."

\* s.rsplit('@', 1) of a string that holds an '@': <<before the last '@', after it>>
rsplit_at(s) ==
    LET at == SetMax({i \in 1..Len(s) : s[i] = "@"})
    IN  <<SubSeq(s, 1, at - 1), SubSeq(s, at + 1, Len(s))>>

\* s.split('.'): the pieces between the periods, in order
split_periods(s) ==
    LET dots == {i \in 1..Len(s) : s[i] = "."}
        \* the position of the k-th period; 0 before the first, Len(s)+1 after the last
        dot(k) == IF k = 0 THEN 0
                  ELSE IF k > Cardinality(dots) THEN Len(s) + 1
                  ELSE CHOOSE i \in dots : Cardinality({j \in dots : j <= i}) = k
    IN  [k \in 1..(Cardinality(dots) + 1) |-> SubSeq(s, dot(k - 1) + 1, dot(k) - 1)]

\* re.match(r'^[a-zA-Z0-9-]+$', label): '$' also matches before a final newline
label_regex_match(label) ==
    LET n == Len(label)
        body == IF n >= 1 /\ label[n] = "\n" THEN n - 1 ELSE n
    IN  /\ body >= 1
        /\ \A i \in 1..body : label[i] \in LabelClass

\* EMAIL_PATTERN.match(s):
\* ^[a-zA-Z0-9._%+-]+@[a-zA-Z0-9.-]+\.[a-zA-Z]{2,}$ ('$' as above)
EMAIL_PATTERN_match(s) ==
    LET n == Len(s)
        body == IF n >= 1 /\ s[n] = "\n" THEN n - 1 ELSE n
    IN  \E at \in 2..body : \E dot \in (at + 2)..(body - 2) :
            /\ s[at] = "@"
            /\ \A i \in 1..(at - 1) : s[i] \in PatternLocalClass
            /\ \A i \in (at + 1)..(dot - 1) : s[i] \in PatternDomainClass
            /\ s[dot] = "."
            /\ \A i \in (dot + 1)..body : s[i] \in AsciiLetter

-----------------------------------------------------------------------------
(* Error messages *)

Message(text, arg, num) == [text |-> text, arg |-> arg, num |-> num]

EmptyInput == Message("Email address cannot be empty", <<>>, 0)
TooLong == Message("Email exceeds maximum length of {} characters", <<>>, MAX_EMAIL_LENGTH)
BadSeparatorCount == Message("Email must contain exactly one @ symbol", <<>>, 0)
EmptyLocal == Message("Local part (before @) cannot be empty", <<>>, 0)
LocalTooLong == Message("Local part exceeds maximum length of {} characters", <<>>, MAX_LOCAL_LENGTH)
LocalBoundaryDot == Message("Local part cannot start or end with a period", <<>>, 0)
LocalConsecutiveDots == Message("Local part cannot contain consecutive periods", <<>>, 0)
LocalInvalidChar(char) == Message("Local part contains invalid character: '{}'", <<char>>, 0)
EmptyDomain == Message("Domain part (after @) cannot be empty", <<>>, 0)
DomainTooLong == Message("Domain exceeds maximum length of {} characters", <<>>, MAX_DOMAIN_LENGTH)
DomainNoDot == Message("Domain must contain at least one period", <<>>, 0)
DomainBoundaryChar == Message("Domain cannot start or end with a period or hyphen", <<>>, 0)
DomainConsecutiveDots == Message("Domain cannot contain consecutive periods", <<>>, 0)
TldTooShort == Message("Top-level domain must be at least 2 characters", <<>>, 0)
EmptyLabel == Message("Domain labels cannot be empty", <<>>, 0)
LabelTooLong == Message("Domain label exceeds maximum length of 63 characters", <<>>, 0)
LabelInvalidChar(label) == Message("Domain label '{}' contains invalid characters", label, 0)
PatternMismatch == Message("Email format is invalid", <<>>, 0)

-----------------------------------------------------------------------------
(* EmailValidator *)

\* self.errors.clear()
clear_nothing(errs) == errs
clear(errs) == <<>>

\* self.errors.append(message); return False
fail(errs, message) == [ret |-> FALSE, errors |-> Append(errs, message)]

\* return True
pass(errs) == [ret |-> TRUE, errors |-> errs]

\* len(email) > self.MAX_EMAIL_LENGTH
exceeds_max_length_at_254(e) == Len(e) >= MAX_EMAIL_LENGTH
exceeds_max_length(e) == Len(e) > MAX_EMAIL_LENGTH

\* email.count('@') != 1
bad_separator_count_when_absent(e) == ~contains(e, "@")
bad_separator_count(e) == count(e, "@") # 1

\* the loop of _validate_local_part: the characters that fail the test, by position
invalid_positions(local) ==
    {i \in 1..Len(local) : ~(isalnum(local[i]) \/ local[i] \in allowed_special)}

\* the character the loop stops at: it runs left to right
first_invalid_char_from_the_right(local) == local[SetMax(invalid_positions(local))]
first_invalid_char(local) == local[SetMin(invalid_positions(local))]

_validate_local_part(errs, strict, local) ==
    IF local = <<>> THEN fail(errs, EmptyLocal)
    ELSE IF Len(local) > MAX_LOCAL_LENGTH THEN fail(errs, LocalTooLong)
    ELSE IF local[1] = "." \/ local[Len(local)] = "." THEN fail(errs, LocalBoundaryDot)
    ELSE IF has_consecutive_periods(local) THEN fail(errs, LocalConsecutiveDots)
    ELSE IF strict /\ invalid_positions(local) # {}
         THEN fail(errs, LocalInvalidChar(first_invalid_char(local)))
    ELSE pass(errs)

\* one turn of the label loop: the message the label gets, or none
label_errors(label) ==
    IF label = <<>> THEN <<EmptyLabel>>
    ELSE IF Len(label) > MAX_LABEL_LENGTH THEN <<LabelTooLong>>
    ELSE IF ~label_regex_match(label) THEN <<LabelInvalidChar(label)>>
    ELSE <<>>

\* the label loop with its returns missing: every bad label appends its message
RECURSIVE validate_labels_without_return(_, _, _)
validate_labels_without_return(errs, labels, k) ==
    IF k > Len(labels) THEN [ret |-> TRUE, errors |-> errs]
    ELSE LET rest == validate_labels_without_return(errs \o label_errors(labels[k]), labels, k + 1)
         IN  [ret |-> rest.ret /\ label_errors(labels[k]) = <<>>, errors |-> rest.errors]

\* for label in labels: ..., from the k-th label on
RECURSIVE validate_labels(_, _, _)
validate_labels(errs, labels, k) ==
    IF k > Len(labels) THEN pass(errs)
    ELSE IF label_errors(labels[k]) # <<>> THEN fail(errs, label_errors(labels[k])[1])
    ELSE validate_labels(errs, labels, k + 1)

_validate_domain_part(errs, domain) ==
    IF domain = <<>> THEN fail(errs, EmptyDomain)
    ELSE IF Len(domain) > MAX_DOMAIN_LENGTH THEN fail(errs, DomainTooLong)
    ELSE IF ~contains(domain, ".") THEN fail(errs, DomainNoDot)
    ELSE IF \/ domain[1] = "." \/ domain[Len(domain)] = "."
            \/ domain[1] = "-" \/ domain[Len(domain)] = "-"
         THEN fail(errs, DomainBoundaryChar)
    ELSE IF has_consecutive_periods(domain) THEN fail(errs, DomainConsecutiveDots)
    ELSE LET labels == split_periods(domain)
             tld == labels[Len(labels)]
         IN  IF Len(tld) < MIN_TLD_LENGTH THEN fail(errs, TldTooShort)
             ELSE validate_labels(errs, labels, 1)

\* validate after its first statement, with the pattern failure returning
\* False and appending nothing
validate_checks_silent_pattern(errs, strict, e) ==
    IF e = <<>> THEN fail(errs, EmptyInput)
    ELSE LET stripped == strip(e)
         IN  IF exceeds_max_length(stripped) THEN fail(errs, TooLong)
             ELSE IF bad_separator_count(stripped) THEN fail(errs, BadSeparatorCount)
             ELSE LET parts == rsplit_at(stripped)
                      l == _validate_local_part(errs, strict, parts[1])
                  IN  IF ~l.ret THEN l
                      ELSE LET d == _validate_domain_part(l.errors, parts[2])
                           IN  IF ~d.ret THEN d
                               ELSE IF ~EMAIL_PATTERN_match(stripped)
                                    THEN [ret |-> FALSE, errors |-> d.errors]
                               ELSE pass(d.errors)

\* validate after its first statement (self.errors.clear())
validate_checks(errs, strict, e) ==
    IF e = <<>> THEN fail(errs, EmptyInput)
    ELSE LET stripped == strip(e)
         IN  IF exceeds_max_length(stripped) THEN fail(errs, TooLong)
             ELSE IF bad_separator_count(stripped) THEN fail(errs, BadSeparatorCount)
             ELSE LET parts == rsplit_at(stripped)
                      l == _validate_local_part(errs, strict, parts[1])
                  IN  IF ~l.ret THEN l
                      ELSE LET d == _validate_domain_part(l.errors, parts[2])
                           IN  IF ~d.ret THEN d
                               ELSE IF ~EMAIL_PATTERN_match(stripped)
                                    THEN fail(d.errors, PatternMismatch)
                               ELSE pass(d.errors)

\* validate(email), on an instance whose error list is errs
validate(errs, strict, e) == validate_checks(clear(errs), strict, e)

\* get_errors(): self.errors.copy()
get_errors(errs) == errs

\* validate_with_details(email), run without interruption
validate_with_details(errs, strict, e) ==
    LET v == validate(errs, strict, e)
    IN  [ret |-> <<v.ret, get_errors(v.errors)>>, errors |-> v.errors]

-----------------------------------------------------------------------------
(* The inputs the callers draw from *)

MaxShortLen == 3
MaxPartLen == 2
MaxPad == 1
NumThreads == 2

\* every string over alphabet of length at most n
Strings(alphabet, n) == UNION {[1..k -> alphabet] : k \in 0..n}

Repeat(c, n) == [i \in 1..n |-> c]

\* short strings: empty, blank, no '@', several '@', empty local or domain part
ShortInputs == Strings({"a", "@", ".", " "}, MaxShortLen)

\* a good domain behind every short local part
LocalParts == Strings({"a", ".", "+", "!", " ", "é"}, MaxPartLen)
LocalInputs == {l \o <<"@", "a", "a", ".", "a", "a">> : l \in LocalParts}

\* a good local part before domains built from a short first piece and a tail
DomainHeads == Strings({"a", ".", "-", "\n", "!"}, MaxPartLen)
DomainTails == {<<>>, <<".", "a">>, <<".", "a", "a">>, <<".", "a", "1">>,
                <<".", "!", "!">>, <<".", "a", ".", "a", "a">>}
DomainInputs == {<<"a", "@">> \o h \o t : h \in DomainHeads, t \in DomainTails}

\* local part and domain part both bad
BadLocalParts == {<<".", "a">>, <<"a", ".", ".", "a">>, <<"a", "!">>, <<"é">>}
BadDomainParts == {<<"a">>, <<"-", "a", ".", "a", "a">>, <<"a", ".", "a">>,
                   <<"!", ".", "a", "a">>, <<"a", "\n", ".", "a", "a">>}
BothBadInputs == {l \o <<"@">> \o d : l \in BadLocalParts, d \in BadDomainParts}

\* runs of one letter that put the whole string, the local part or a label at
\* its length limit, with blanks around them
Pads == {Repeat(" ", n) : n \in 0..MaxPad} \cup {<<"\n">>}
EdgeLengths == {MAX_EMAIL_LENGTH - 1, MAX_EMAIL_LENGTH, MAX_EMAIL_LENGTH + 1}
EdgeTails == {<<>>, <<"@">>, <<"@", "@">>, <<"@", "a", ".", "a", "a">>, <<".", "a", "a">>}
LongInputs ==
    {p \o Repeat("a", n - Len(t)) \o t \o q :
        p \in Pads, q \in Pads, n \in EdgeLengths, t \in EdgeTails}
LongLocalInputs ==
    {Repeat("a", n) \o <<"@", "a", ".", "a", "a">> :
        n \in {MAX_LOCAL_LENGTH, MAX_LOCAL_LENGTH + 1}}
LongLabelInputs ==
    {<<"a", "@">> \o Repeat("a", n) \o <<".", "a", "a">> :
        n \in {MAX_LABEL_LENGTH, MAX_LABEL_LENGTH + 1}}

\* test_emails, the inputs of the example at the end of the file
TestEmails ==
    {
     \* user@example.com
     <<"u", "s", "e", "r", "@", "e", "x", "a", "m", "p", "l", "e", ".", "c", "o",
       "m">>,
     \* test.email+tag@domain.co.uk
     <<"t", "e", "s", "t", ".", "e", "m", "a", "i", "l", "+", "t", "a", "g", "@", "d",
       "o", "m", "a", "i", "n", ".", "c", "o", ".", "u", "k">>,
     \* invalid.email@
     <<"i", "n", "v", "a", "l", "i", "d", ".", "e", "m", "a", "i", "l", "@">>,
     \* @invalid.com
     <<"@", "i", "n", "v", "a", "l", "i", "d", ".", "c", "o", "m">>,
     \* no-at-sign.com
     <<"n", "o", "-", "a", "t", "-", "s", "i", "g", "n", ".", "c", "o", "m">>,
     \* double@@example.com
     <<"d", "o", "u", "b", "l", "e", "@", "@", "e", "x", "a", "m", "p", "l", "e", ".",
       "c", "o", "m">>,
     \* spaces in@example.com
     <<"s", "p", "a", "c", "e", "s", " ", "i", "n", "@", "e", "x", "a", "m", "p", "l",
       "e", ".", "c", "o", "m">>,
     \* .starts-with-dot@example.com
     <<".", "s", "t", "a", "r", "t", "s", "-", "w", "i", "t", "h", "-", "d", "o", "t",
       "@", "e", "x", "a", "m", "p", "l", "e", ".", "c", "o", "m">>,
     \* ends-with-dot.@example.com
     <<"e", "n", "d", "s", "-", "w", "i", "t", "h", "-", "d", "o", "t", ".", "@", "e",
       "x", "a", "m", "p", "l", "e", ".", "c", "o", "m">>,
     \* consecutive..dots@example.com
     <<"c", "o", "n", "s", "e", "c", "u", "t", "i", "v", "e", ".", ".", "d", "o", "t",
       "s", "@", "e", "x", "a", "m", "p", "l", "e", ".", "c", "o", "m">>,
     \* user@domain
     <<"u", "s", "e", "r", "@", "d", "o", "m", "a", "i", "n">>,
     \* user@.invalid.com
     <<"u", "s", "e", "r", "@", ".", "i", "n", "v", "a", "l", "i", "d", ".", "c", "o",
       "m">>,
     \* valid_email123@test-domain.org
     <<"v", "a", "l", "i", "d", "_", "e", "m", "a", "i", "l", "1", "2", "3", "@", "t",
       "e", "s", "t", "-", "d", "o", "m", "a", "i", "n", ".", "o", "r", "g">>
    }

Inputs ==
    TestEmails \cup ShortInputs \cup LocalInputs \cup DomainInputs \cup BothBadInputs
        \cup LongInputs \cup LongLocalInputs \cup LongLabelInputs

\* the inputs a caller goes on with after its first
NextInputs ==
    {<<>>, <<"a">>, <<"a", "@", "a", ".", "a", "a">>, <<"a", "!", "@", "a", ".", "a", "a">>,
     <<"a", "@", "!", ".", "!", "!">>, <<"a", "@", "a", ".", "a", "1">>}

\* the inputs the threads call with
ConcurrentInputs ==
    {<<"a", "@", "a", ".", "a", "a">>, <<"a">>, <<"@", "a", ".", "a", "a">>, <<>>}

Threads == 1..NumThreads

-----------------------------------------------------------------------------
(* One caller of one instance: each method runs to its return *)

None == "None"

IdleThreads ==
    /\ pc = [t \in Threads |-> "idle"]
    /\ t_email = [t \in Threads |-> <<>>]
    /\ t_is_valid = [t \in Threads |-> FALSE]
    /\ t_ret = [t \in Threads |-> <<FALSE, <<>>>>]

IdlePair ==
    /\ errors_s = <<>>
    /\ errors_n = <<>>
    /\ ret_s = None
    /\ ret_n = None

NoCall == [called |-> FALSE, email |-> <<>>, before |-> <<>>]

\* validator = EmailValidator(strict_mode), and the caller's first input
Init ==
    /\ strict_mode \in BOOLEAN
    /\ errors = <<>>
    /\ op = "__init__"
    /\ email \in Inputs
    /\ ret = None
    /\ last_call = NoCall
    /\ IdleThreads
    /\ IdlePair

\* the caller moves on to its next input
NextInput(e) ==
    /\ email' = e
    /\ op' = "input"
    /\ ret' = None
    /\ UNCHANGED <<strict_mode, errors, last_call, pc, t_email, t_is_valid, t_ret,
                   errors_s, errors_n, ret_s, ret_n>>

\* validator.validate(email)
Validate ==
    LET v == validate(errors, strict_mode, email)
    IN  /\ errors' = v.errors
        /\ ret' = v.ret
        /\ op' = "validate"
        /\ last_call' = [called |-> TRUE, email |-> email, before |-> errors]
        /\ UNCHANGED <<strict_mode, email, pc, t_email, t_is_valid, t_ret,
                       errors_s, errors_n, ret_s, ret_n>>

\* validator.get_errors()
GetErrors ==
    /\ ret' = get_errors(errors)
    /\ op' = "get_errors"
    /\ UNCHANGED <<strict_mode, errors, email, last_call, pc, t_email, t_is_valid, t_ret,
                   errors_s, errors_n, ret_s, ret_n>>

\* validator.validate_with_details(email)
ValidateWithDetails ==
    LET v == validate_with_details(errors, strict_mode, email)
    IN  /\ errors' = v.errors
        /\ ret' = v.ret
        /\ op' = "validate_with_details"
        /\ last_call' = [called |-> TRUE, email |-> email, before |-> errors]
        /\ UNCHANGED <<strict_mode, email, pc, t_email, t_is_valid, t_ret,
                       errors_s, errors_n, ret_s, ret_n>>

Next ==
    \/ \E e \in NextInputs : NextInput(e)
    \/ Validate
    \/ GetErrors
    \/ ValidateWithDetails

Spec == Init /\ [][Next]_vars

-----------------------------------------------------------------------------
(* One caller of two instances, one of each mode, with the same input *)

InitModes ==
    /\ strict_mode = FALSE
    /\ errors = <<>>
    /\ op = "__init__"
    /\ email \in Inputs
    /\ ret = None
    /\ last_call = NoCall
    /\ IdleThreads
    /\ IdlePair

\* EmailValidator(True).validate(email); EmailValidator(False).validate(email),
\* each instance kept from call to call
ValidateBoth ==
    LET s == validate(errors_s, TRUE, email)
        n == validate(errors_n, FALSE, email)
    IN  /\ errors_s' = s.errors
        /\ ret_s' = s.ret
        /\ errors_n' = n.errors
        /\ ret_n' = n.ret
        /\ op' = "validate_both"
        /\ UNCHANGED <<strict_mode, errors, email, ret, last_call,
                       pc, t_email, t_is_valid, t_ret>>

NextModes ==
    \/ \E e \in NextInputs : NextInput(e)
    \/ ValidateBoth

SpecModes == InitModes /\ [][NextModes]_vars

-----------------------------------------------------------------------------
(* Threads that share one instance: each calls validate_with_details, and   *)
(* the interpreter may switch threads between two operations on self.errors *)

InitThreads ==
    /\ strict_mode \in BOOLEAN
    /\ errors = <<>>
    /\ op = "__init__"
    /\ email = <<>>
    /\ ret = None
    /\ last_call = NoCall
    /\ IdleThreads
    /\ IdlePair

\* thread t enters validate_with_details(e), and validate(e) from it
Call(t, e) ==
    /\ pc[t] = "idle"
    /\ pc' = [pc EXCEPT ![t] = "clear"]
    /\ t_email' = [t_email EXCEPT ![t] = e]
    /\ UNCHANGED <<strict_mode, errors, op, email, ret, last_call, t_is_valid, t_ret,
                   errors_s, errors_n, ret_s, ret_n>>

\* self.errors.clear()
ClearStep(t) ==
    /\ pc[t] = "clear"
    /\ errors' = clear(errors)
    /\ pc' = [pc EXCEPT ![t] = "checks"]
    /\ UNCHANGED <<strict_mode, op, email, ret, last_call, t_email, t_is_valid, t_ret,
                   errors_s, errors_n, ret_s, ret_n>>

\* the checks of validate, which read the argument alone, up to the one
\* self.errors.append of a failing call; is_valid = the value returned
ChecksStep(t) ==
    LET v == validate_checks(errors, strict_mode, t_email[t])
    IN  /\ pc[t] = "checks"
        /\ errors' = v.errors
        /\ t_is_valid' = [t_is_valid EXCEPT ![t] = v.ret]
        /\ pc' = [pc EXCEPT ![t] = "get_errors"]
        /\ UNCHANGED <<strict_mode, op, email, ret, last_call, t_email, t_ret,
                       errors_s, errors_n, ret_s, ret_n>>

\* return is_valid, self.get_errors()
GetErrorsStep(t) ==
    /\ pc[t] = "get_errors"
    /\ t_ret' = [t_ret EXCEPT ![t] = <<t_is_valid[t], get_errors(errors)>>]
    /\ pc' = [pc EXCEPT ![t] = "returned"]
    /\ UNCHANGED <<strict_mode, errors, op, email, ret, last_call, t_email, t_is_valid,
                   errors_s, errors_n, ret_s, ret_n>>

\* the thread's caller takes the result and is ready to call again
Resume(t) ==
    /\ pc[t] = "returned"
    /\ pc' = [pc EXCEPT ![t] = "idle"]
    /\ UNCHANGED <<strict_mode, errors, op, email, ret, last_call, t_email, t_is_valid, t_ret,
                   errors_s, errors_n, ret_s, ret_n>>

NextThreads ==
    \E t \in Threads :
        \/ \E e \in ConcurrentInputs : Call(t, e)
        \/ ClearStep(t)
        \/ ChecksStep(t)
        \/ GetErrorsStep(t)
        \/ Resume(t)

SpecThreads == InitThreads /\ [][NextThreads]_vars

-----------------------------------------------------------------------------
(* What the specification says of the validator *)

\* the length of s without its leading and trailing whitespace
TrimmedLength(s) ==
    IF \A i \in 1..Len(s) : s[i] \in Whitespace THEN 0
    ELSE Len(s) - Cardinality({i \in 1..Len(s) : \A j \in 1..i : s[j] \in Whitespace})
                - Cardinality({i \in 1..Len(s) : \A j \in i..Len(s) : s[j] \in Whitespace})

\* s has exactly one '@'
HasOneAt(s) == \E i \in 1..Len(s) : s[i] = "@" /\ \A j \in 1..Len(s) : s[j] = "@" => j = i

\* the parts of a string with one '@' before and after it (empty without one)
LocalOf(s) ==
    IF HasOneAt(s) THEN SubSeq(s, 1, (CHOOSE i \in 1..Len(s) : s[i] = "@") - 1) ELSE <<>>
DomainOf(s) ==
    IF HasOneAt(s) THEN SubSeq(s, (CHOOSE i \in 1..Len(s) : s[i] = "@") + 1, Len(s)) ELSE <<>>

\* the final pattern of section 4.1, anchored at both ends
PatternHolds(s) ==
    \E at \in 1..Len(s) : \E dot \in 1..Len(s) :
        /\ 1 < at /\ at + 1 < dot /\ dot + 2 <= Len(s)
        /\ s[at] = "@" /\ s[dot] = "."
        /\ \A i \in 1..(at - 1) : s[i] \in AsciiAlnum \cup {".", "_", "%", "+", "-"}
        /\ \A i \in (at + 1)..(dot - 1) : s[i] \in AsciiAlnum \cup {".", "-"}
        /\ \A i \in (dot + 1)..Len(s) : s[i] \in AsciiLetter

\* the positions of local whose character strict mode refuses (section 4.1:
\* neither alphanumeric nor one of . _ % + -)
RefusedInStrictMode(local) ==
    {i \in 1..Len(local) : ~(isalnum(local[i]) \/ local[i] \in {".", "_", "%", "+", "-"})}

\* the stages of section 4.1 in their order, each with whether the input
\* fails it and the message it reports
Stages(e, strict) ==
    LET t == strip(e)
        local == LocalOf(t)
        domain == DomainOf(t)
        labels == split_periods(domain)
        refused == RefusedInStrictMode(local)
        whole ==
            << <<e = <<>>, EmptyInput>>,
               <<Len(t) > MAX_EMAIL_LENGTH, TooLong>>,
               <<~HasOneAt(t), BadSeparatorCount>>,
               <<local = <<>>, EmptyLocal>>,
               <<Len(local) > MAX_LOCAL_LENGTH, LocalTooLong>>,
               <<local # <<>> /\ (local[1] = "." \/ local[Len(local)] = "."), LocalBoundaryDot>>,
               <<has_consecutive_periods(local), LocalConsecutiveDots>>,
               <<strict /\ refused # {},
                 IF refused # {} THEN LocalInvalidChar(local[SetMin(refused)]) ELSE PatternMismatch>>,
               <<domain = <<>>, EmptyDomain>>,
               <<Len(domain) > MAX_DOMAIN_LENGTH, DomainTooLong>>,
               <<~contains(domain, "."), DomainNoDot>>,
               <<domain # <<>> /\ (domain[1] \in {".", "-"} \/ domain[Len(domain)] \in {".", "-"}),
                 DomainBoundaryChar>>,
               <<has_consecutive_periods(domain), DomainConsecutiveDots>>,
               <<Len(labels[Len(labels)]) < MIN_TLD_LENGTH, TldTooShort>> >>
        perLabel ==
            [i \in 1..(3 * Len(labels)) |->
                LET label == labels[((i - 1) \div 3) + 1]
                IN  IF (i - 1) % 3 = 0 THEN <<label = <<>>, EmptyLabel>>
                    ELSE IF (i - 1) % 3 = 1 THEN <<Len(label) > MAX_LABEL_LENGTH, LabelTooLong>>
                    ELSE <<\E k \in 1..Len(label) : label[k] \notin AsciiAlnum \cup {"-"},
                           LabelInvalidChar(label)>>]
    IN  whole \o perLabel \o << <<~PatternHolds(t), PatternMismatch>> >>

\* the error list section 4.1 gives for an input: the message of the earliest
\* failing stage, or nothing
Report(e, strict) ==
    LET stages == Stages(e, strict)
        failing == {i \in 1..Len(stages) : stages[i][1]}
    IN  IF failing = {} THEN <<>> ELSE <<stages[SetMin(failing)][2]>>

LabelInvalidCharText == LabelInvalidChar(<<>>).text
LocalInvalidCharText == LocalInvalidChar("a").text

\* C1: validate_with_details is atomic: what a thread gets back is the verdict
\* and the error list of its own call, whatever the other threads do to the
\* same instance meanwhile
DetailsAreAtomic ==
    \A t \in Threads :
        pc[t] = "returned" =>
            t_ret[t] = validate_with_details(<<>>, strict_mode, t_email[t]).ret

\* C2: after validate returns, it returned True iff the error list is empty
ValidIffNoErrors ==
    op = "validate" => (ret = TRUE <=> errors = <<>>)

ValidIffNoErrorsWitness ==
    /\ op = "validate"
    /\ ret = FALSE
    /\ errors = <<PatternMismatch>>
    /\ last_call.before # <<>>

\* C3: nothing leaks from call to call: after validate, the verdict and the
\* error list are those of a fresh instance given the same input, and
\* get_errors returns that list, which is empty before any call and after a
\* call that succeeded
NoStateLeak ==
    /\ op = "__init__" => errors = <<>>
    /\ op = "validate" =>
          /\ ret = validate(<<>>, strict_mode, email).ret
          /\ errors = validate(<<>>, strict_mode, email).errors
    /\ op = "get_errors" =>
          /\ ~last_call.called => ret = <<>>
          /\ last_call.called =>
                /\ ret = validate(<<>>, strict_mode, last_call.email).errors
                /\ validate(<<>>, strict_mode, last_call.email).ret => ret = <<>>

NoStateLeakWitness ==
    /\ op = "get_errors"
    /\ last_call.called
    /\ last_call.before # <<>>
    /\ validate(<<>>, strict_mode, last_call.email).ret
    /\ ret = <<>>

\* C4: a validate call leaves no message when it succeeds and exactly one
\* when it fails
AtMostOneError ==
    /\ op = "validate" => Len(errors) = (IF ret THEN 0 ELSE 1)
    /\ op = "validate_with_details" =>
          /\ Len(errors) = (IF ret[1] THEN 0 ELSE 1)
          /\ Len(ret[2]) = (IF ret[1] THEN 0 ELSE 1)

\* a domain with two bad labels, validated after a call that failed
AtMostOneErrorWitness ==
    /\ op = "validate"
    /\ email = <<"a", "@", "!", ".", "!", "!">>
    /\ last_call.before # <<>>
    /\ ret = FALSE
    /\ Len(errors) = 1

\* C5 as stated: every input with no '@' or with several gets
\* (False, ["Email must contain exactly one @ symbol"])
SeparatorCountAlwaysReported ==
    (op = "validate_with_details" /\ count(email, "@") # 1)
        => ret = <<FALSE, <<BadSeparatorCount>>>>

\* C5, amended: every input that is not empty, is at most 254 long once
\* trimmed, and has no '@' or several, gets
\* (False, ["Email must contain exactly one @ symbol"])
SeparatorCountReported ==
    (/\ op = "validate_with_details"
     /\ email # <<>>
     /\ TrimmedLength(email) <= MAX_EMAIL_LENGTH
     /\ count(email, "@") # 1)
        => ret = <<FALSE, <<BadSeparatorCount>>>>

SeparatorCountReportedWitness ==
    /\ op = "validate_with_details"
    /\ count(email, "@") >= 2
    /\ ret = <<FALSE, <<BadSeparatorCount>>>>

\* the positions of local whose character is outside [A-Za-z0-9._%+-]
OutsideLocalClass(local) ==
    {i \in 1..Len(local) : local[i] \notin AsciiAlnum \cup {".", "_", "%", "+", "-"}}

\* C6 as stated: in strict mode, an input with a local part (it has one '@'
\* and is not too long) that holds a character outside [A-Za-z0-9._%+-] is
\* rejected with LocalInvalidChar of the first such character
StrictRejectsOutsideClass ==
    LET t == strip(email)
        local == LocalOf(t)
    IN  (/\ op = "validate"
         /\ strict_mode
         /\ Len(t) <= MAX_EMAIL_LENGTH
         /\ HasOneAt(t)
         /\ OutsideLocalClass(local) # {})
            => /\ ret = FALSE
               /\ errors = <<LocalInvalidChar(local[SetMin(OutsideLocalClass(local))])>>

\* the input reaches the strict-mode loop: it passes every check before it
ReachesStrictLoop(t) ==
    /\ Len(t) <= MAX_EMAIL_LENGTH
    /\ HasOneAt(t)
    /\ LocalOf(t) # <<>>
    /\ Len(LocalOf(t)) <= MAX_LOCAL_LENGTH
    /\ LocalOf(t)[1] # "."
    /\ LocalOf(t)[Len(LocalOf(t))] # "."
    /\ ~has_consecutive_periods(LocalOf(t))

\* C6, amended: in strict mode, an input that passes the checks before the
\* strict-mode loop and whose local part holds a character that is neither
\* alphanumeric (as str.isalnum has it) nor one of . _ % + - is rejected with
\* LocalInvalidChar of the first such character
StrictRejectsRefused ==
    LET t == strip(email)
        local == LocalOf(t)
    IN  (/\ op = "validate"
         /\ strict_mode
         /\ ReachesStrictLoop(t)
         /\ RefusedInStrictMode(local) # {})
            => /\ ret = FALSE
               /\ errors = <<LocalInvalidChar(local[SetMin(RefusedInStrictMode(local))])>>

\* two refused characters, the first one reported
StrictRejectsRefusedWitness ==
    /\ op = "validate"
    /\ strict_mode
    /\ email = <<"!", " ", "@", "a", "a", ".", "a", "a">>
    /\ errors = <<LocalInvalidChar("!")>>

\* C7: the length stage looks at the trimmed input and allows 254: a
\* non-empty input of trimmed length 254 is not reported too long, one of
\* trimmed length 255 or more is reported too long and nothing else
LengthBoundary ==
    (op = "validate" /\ email # <<>>) =>
        /\ TrimmedLength(email) = MAX_EMAIL_LENGTH => TooLong \notin {errors[i] : i \in 1..Len(errors)}
        /\ TrimmedLength(email) > MAX_EMAIL_LENGTH => (ret = FALSE /\ errors = <<TooLong>>)

\* longer than 254 as given, 254 once trimmed
LengthBoundaryWitness ==
    /\ op = "validate"
    /\ Len(email) > MAX_EMAIL_LENGTH
    /\ TrimmedLength(email) = MAX_EMAIL_LENGTH
    /\ errors # <<TooLong>>

\* C8: validate reports the message of the earliest failing stage, in the
\* order of section 4.1, and nothing when no stage fails
EarliestStageReported ==
    op = "validate" =>
        /\ errors = Report(email, strict_mode)
        /\ ret = (Report(email, strict_mode) = <<>>)

\* C9: an input that passes every check before it and whose first bad label
\* is non-empty, at most 63 long and holds a character outside [A-Za-z0-9-]
\* is reported with LabelInvalidChar of that label
LabelInvalidCharReported ==
    (/\ op = "validate"
     /\ Report(email, strict_mode) # <<>>
     /\ Report(email, strict_mode)[1].text = LabelInvalidCharText)
        => /\ ret = FALSE
           /\ errors = Report(email, strict_mode)

DomainTexts ==
    {EmptyDomain.text, DomainTooLong.text, DomainNoDot.text, DomainBoundaryChar.text,
     DomainConsecutiveDots.text, TldTooShort.text, EmptyLabel.text, LabelTooLong.text,
     LabelInvalidCharText}

\* C10: the two modes give every input the same verdict, and where their
\* error lists differ the strict one holds LocalInvalidChar and the other a
\* domain-part error or PatternMismatch
ModesAgree ==
    op = "validate_both" =>
        /\ ret_s = ret_n
        /\ errors_s # errors_n =>
              /\ Len(errors_s) = 1 /\ errors_s[1].text = LocalInvalidCharText
              /\ Len(errors_n) = 1 /\ errors_n[1].text \in DomainTexts \cup {PatternMismatch.text}

ModesAgreeWitness ==
    /\ op = "validate_both"
    /\ ret_s = FALSE
    /\ ret_n = FALSE
    /\ errors_s # errors_n

====
